---- MODULE Spec2Model ----
(***************************************************************************)
(* Fixed-layout frame codecs of uart_all_in_one: CyyPacket.c,              *)
(* Cyy_Packet_header_send.cpp, Dart_aim_Packet_recv.c (header + payload +  *)
(* checksum + footer, with recive_Verify and decode), the encode-only      *)
(* CyyPacket_header_send.c, and the unframed WeaponPacket.c.               *)
(*                                                                         *)
(* A buffer is a function from 0-based byte offsets to bytes, as in C.     *)
(* A 4-byte scalar field (float, int32_t) is its 32-bit object             *)
(* representation read as a two's complement int32; memcpy moves its four  *)
(* bytes in the host's byte order.                                         *)
(***************************************************************************)
EXTENDS Integers, Sequences, FiniteSets

VARIABLES
    schema,     \* the packet type of this channel (which source file is linked)
    bigEndian,  \* byte order of the host: TRUE big-endian, FALSE little-endian
    pkt,        \* the struct handed to encode (its `in`); <<>> before encode
    buf,        \* the byte buffer: `out` of encode, `buf` of recive_Verify, `in` of decode
    len,        \* the `len` the caller hands to recive_Verify
    ret,        \* what recive_Verify returned; -1 before it is called
    chk,        \* the check whose return statement recive_Verify left by
    reads,      \* the offsets of buf recive_Verify read
    out,        \* the struct decode writes (its `out`)
    pc,         \* "idle", "sent" (encode returned), "rcvd" (the transport delivered)
    called,     \* the receive-side functions called on the delivered buffer
    fault,      \* what the transport did to the frame
    echo,       \* a second buffer, into which the receiver re-encodes what it decoded
    thr,        \* concurrent callers: each one's position, struct, buffer and results
    loc         \* the automatic variables s and i of send_Verify, one pair per call frame

\* the state of the single caller
single == <<pkt, buf, len, ret, chk, reads, out, pc, called, fault, echo>>

vars == <<schema, bigEndian, single, thr, loc>>

-----------------------------------------------------------------------------
(* Bounds of the model *)

\* how many of the test words a payload field may take
MaxVals == 3
\* bytes of caller buffer beyond the frame; also how far a frame is truncated or padded
Pad == 1
\* how many callers run the codec concurrently
NThreads == 2

-----------------------------------------------------------------------------
(* Program constants *)

PACKET_HEADER == 170
PACKET_FOOTER == 85

Schemas ==
    {"CyyPacket", "Cyy_Packet_header", "Dart_aim_Packet", "CyyPacket_header", "WeaponPacket"}

PACKET_SIZE(S) ==
    CASE S = "Dart_aim_Packet" -> 16
      [] S = "WeaponPacket"    -> 20
      [] OTHER                 -> 12

PACKET_TOTAL_SIZE(S) == PACKET_SIZE(S) + 3

\* the struct of each packet type: the sizeof of its members, in declaration order
Members(S) ==
    CASE S = "Dart_aim_Packet" -> <<4, 4, 4, 4>>
      [] S = "WeaponPacket"    -> <<16, 4>>
      [] OTHER                 -> <<4, 4, 4>>

\* the files that define recive_Verify, and those that define decode
HasVerify(S) == S \in {"CyyPacket", "Cyy_Packet_header", "Dart_aim_Packet"}
HasDecode(S) == S \in {"CyyPacket", "Cyy_Packet_header", "Dart_aim_Packet", "WeaponPacket"}

Byte == 0..255

-----------------------------------------------------------------------------
(* memcpy and object representations *)

\* the four bytes of a 4-byte scalar in memory, lowest address first
\* (\div rounds down, so on a negative w it is the arithmetic shift)
ObjRep(w) ==
    LET b(i) == (w \div (256 ^ i)) % 256
    IN  IF bigEndian THEN <<b(3), b(2), b(1), b(0)>> ELSE <<b(0), b(1), b(2), b(3)>>

\* faulty variant of ObjVal: the bytes are always taken in network (big-endian) order
ObjValSwapped(m) ==
    LET top(b) == IF b >= 128 THEN b - 256 ELSE b
    IN  top(m[1]) * 16777216 + m[2] * 65536 + m[3] * 256 + m[4]

\* the scalar whose memory holds these four bytes
ObjVal(m) ==
    LET top(b) == IF b >= 128 THEN b - 256 ELSE b
    IN  IF bigEndian
        THEN top(m[1]) * 16777216 + m[2] * 65536 + m[3] * 256 + m[4]
        ELSE top(m[4]) * 16777216 + m[3] * 65536 + m[2] * 256 + m[1]

\* the memory of struct member k of size n holding value x: a char array is its bytes
MemberBytes(x, n) == IF n = 4 THEN ObjRep(x) ELSE x
MemberValue(m, n) == IF n = 4 THEN ObjVal(m) ELSE m

\* memcpy(dst + p, src, Len(src)): dst with the bytes of src at offsets p, p+1, ...
memcpyTo(dst, p, src) ==
    [i \in DOMAIN dst |-> IF i >= p /\ i < p + Len(src) THEN src[i - p + 1] ELSE dst[i]]

\* the n bytes memcpy(&member, src + p, n) copies
memcpyFrom(src, p, n) == [i \in 1..n |-> src[p + i - 1]]

-----------------------------------------------------------------------------
(* send_Verify *)

\* the loop of send_Verify from index i with accumulator s; the uint32_t s cannot
\* wrap: it holds at most n * 255, and n is a PACKET_SIZE
RECURSIVE sumLoop(_, _, _, _, _)
sumLoop(b, off, n, i, s) ==
    IF i < n THEN sumLoop(b, off, n, i + 1, s + b[off + i]) ELSE s

\* faulty variant of send_Verify: the sum is masked with 0x7F
send_VerifyMask7(b, off, n) == sumLoop(b, off, n, 0, 0) % 128

\* send_Verify(b + off, n)
send_Verify(b, off, n) == sumLoop(b, off, n, 0, 0) % 256

-----------------------------------------------------------------------------
(* encode *)

\* the memcpy lines of encode, members k.. of `in`, cursor p: the buffer and the cursor after
RECURSIVE putMembers(_, _, _, _, _)
putMembers(S, in, k, o, p) ==
    IF k > Len(Members(S)) THEN [o |-> o, p |-> p]
    ELSE putMembers(S, in, k + 1,
                    memcpyTo(o, p, MemberBytes(in[k], Members(S)[k])),
                    p + Members(S)[k])

\* faulty variant of encodeFramed: the checksum is taken from out, not out + 1
encodeFramedSumFromHeader(S, in, o) ==
    LET o1 == [o EXCEPT ![0] = PACKET_HEADER]
        m  == putMembers(S, in, 1, o1, 1)
        checksum == send_Verify(m.o, 0, PACKET_SIZE(S))
        o2 == [m.o EXCEPT ![m.p] = checksum]
        o3 == [o2 EXCEPT ![m.p + 1] = PACKET_FOOTER]
    IN  [o |-> o3, p |-> m.p + 2]

\* encode of the framed packet types: the buffer after, and the final cursor
encodeFramed(S, in, o) ==
    LET o1 == [o EXCEPT ![0] = PACKET_HEADER]
        m  == putMembers(S, in, 1, o1, 1)
        checksum == send_Verify(m.o, 1, PACKET_SIZE(S))
        o2 == [m.o EXCEPT ![m.p] = checksum]
        o3 == [o2 EXCEPT ![m.p + 1] = PACKET_FOOTER]
    IN  [o |-> o3, p |-> m.p + 2]

\* encode of WeaponPacket.c: the members only
encodeWeapon(in, o) == putMembers("WeaponPacket", in, 1, o, 0)

encode(S, in, o) ==
    IF S = "WeaponPacket" THEN encodeWeapon(in, o) ELSE encodeFramed(S, in, o)

-----------------------------------------------------------------------------
(* recive_Verify *)

\* faulty variant of recive_Verify: the footer is tested before the header
recive_VerifyFooterFirst(S, b, n) ==
    IF n # PACKET_TOTAL_SIZE(S) THEN [ret |-> 0, chk |-> "length", reads |-> {}]
    ELSE IF b[n - 1] # PACKET_FOOTER
         THEN [ret |-> 0, chk |-> "footer", reads |-> {n - 1}]
    ELSE IF b[0] # PACKET_HEADER THEN [ret |-> 0, chk |-> "header", reads |-> {0, n - 1}]
    ELSE LET expect == b[1 + PACKET_SIZE(S)]
         IN  [ret   |-> IF send_Verify(b, 1, PACKET_SIZE(S)) = expect THEN 1 ELSE 0,
              chk   |-> "checksum",
              reads |-> {0, n - 1, 1 + PACKET_SIZE(S)}
                        \cup {1 + i : i \in 0..(PACKET_SIZE(S) - 1)}]

\* faulty variant of recive_Verify: a buffer longer than the frame passes the length test
recive_VerifyAtLeast(S, b, n) ==
    IF n < PACKET_TOTAL_SIZE(S) THEN [ret |-> 0, chk |-> "length", reads |-> {}]
    ELSE IF b[0] # PACKET_HEADER THEN [ret |-> 0, chk |-> "header", reads |-> {0}]
    ELSE IF b[n - 1] # PACKET_FOOTER
         THEN [ret |-> 0, chk |-> "footer", reads |-> {0, n - 1}]
    ELSE LET expect == b[1 + PACKET_SIZE(S)]
         IN  [ret   |-> IF send_Verify(b, 1, PACKET_SIZE(S)) = expect THEN 1 ELSE 0,
              chk   |-> "checksum",
              reads |-> {0, n - 1, 1 + PACKET_SIZE(S)}
                        \cup {1 + i : i \in 0..(PACKET_SIZE(S) - 1)}]

\* faulty variant of recive_Verify: the footer test is left out
recive_VerifyNoFooter(S, b, n) ==
    IF n # PACKET_TOTAL_SIZE(S) THEN [ret |-> 0, chk |-> "length", reads |-> {}]
    ELSE IF b[0] # PACKET_HEADER THEN [ret |-> 0, chk |-> "header", reads |-> {0}]
    ELSE LET expect == b[1 + PACKET_SIZE(S)]
         IN  [ret   |-> IF send_Verify(b, 1, PACKET_SIZE(S)) = expect THEN 1 ELSE 0,
              chk   |-> "checksum",
              reads |-> {0, 1 + PACKET_SIZE(S)}
                        \cup {1 + i : i \in 0..(PACKET_SIZE(S) - 1)}]

\* recive_Verify(b, n): its return value, the check whose return statement it left
\* by, and the offsets of b it read on the way
recive_Verify(S, b, n) ==
    IF n # PACKET_TOTAL_SIZE(S) THEN [ret |-> 0, chk |-> "length", reads |-> {}]
    ELSE IF b[0] # PACKET_HEADER THEN [ret |-> 0, chk |-> "header", reads |-> {0}]
    ELSE IF b[n - 1] # PACKET_FOOTER
         THEN [ret |-> 0, chk |-> "footer", reads |-> {0, n - 1}]
    ELSE LET expect == b[1 + PACKET_SIZE(S)]
         IN  [ret   |-> IF send_Verify(b, 1, PACKET_SIZE(S)) = expect THEN 1 ELSE 0,
              chk   |-> "checksum",
              reads |-> {0, n - 1, 1 + PACKET_SIZE(S)}
                        \cup {1 + i : i \in 0..(PACKET_SIZE(S) - 1)}]

-----------------------------------------------------------------------------
(* decode *)

\* faulty variant of getMembers: the cursor is not advanced after a memcpy
RECURSIVE getMembersStuck(_, _, _, _)
getMembersStuck(S, in, k, p) ==
    IF k > Len(Members(S)) THEN <<>>
    ELSE <<MemberValue(memcpyFrom(in, p, Members(S)[k]), Members(S)[k])>>
         \o getMembersStuck(S, in, k + 1, p)

\* the memcpy lines of decode, members k.. of `out`, cursor p: the members' values
RECURSIVE getMembers(_, _, _, _)
getMembers(S, in, k, p) ==
    IF k > Len(Members(S)) THEN <<>>
    ELSE <<MemberValue(memcpyFrom(in, p, Members(S)[k]), Members(S)[k])>>
         \o getMembers(S, in, k + 1, p + Members(S)[k])

\* faulty variant of decodeFramed: the header is not skipped
decodeFramedNoSkip(S, in) == getMembers(S, in, 1, 0)

\* decode of the framed packet types: p = in + 1 skips the header
decodeFramed(S, in) == getMembers(S, in, 1, 1)

\* decode of WeaponPacket.c: p = in
decodeWeapon(in) == getMembers("WeaponPacket", in, 1, 0)

decode(S, in) == IF S = "WeaponPacket" THEN decodeWeapon(in) ELSE decodeFramed(S, in)

-----------------------------------------------------------------------------
(* The callers: the values they pass and the buffers they own *)

\* object representations of 0.0f or 0, 1.5f (3FC00000), -3.25f (C0500000), 42,
\* -1 (FFFFFFFF) and AA55AA55
Words == <<0, 1069547520, -1068498944, 42, -1, -1437226411>>

FieldVals == {Words[j] : j \in 1..MaxVals}

AimVals == {[i \in 1..16 |-> (j * i) % 256] : j \in 1..MaxVals}

\* the struct values a caller passes to encode
Payloads(S) ==
    IF S = "WeaponPacket"
    THEN {<<a, f>> : a \in AimVals, f \in FieldVals}
    ELSE [1..Len(Members(S)) -> FieldVals]

\* a zero-initialised struct
ZeroStruct(S) ==
    [k \in 1..Len(Members(S)) |->
        IF Members(S)[k] = 4 THEN 0 ELSE [i \in 1..Members(S)[k] |-> 0]]

\* the bytes encode writes: its final cursor
FrameLen(S) == IF S = "WeaponPacket" THEN PACKET_SIZE(S) ELSE PACKET_TOTAL_SIZE(S)

\* offset of the payload in the buffer
PayloadOff(S) == IF S = "WeaponPacket" THEN 0 ELSE 1

\* the caller's buffer: room for a frame and Pad bytes more
Capacity(S) == FrameLen(S) + Pad

FreshBuf(S) == [i \in 0..(Capacity(S) - 1) |-> 204]

NoFault == [kind |-> "none", at |-> 0, bit |-> 0]

\* the callers of the concurrent runs
Threads == 1..NThreads

\* the struct caller t encodes
ConcPayload(t) ==
    <<Words[((t - 1) % Len(Words)) + 1], Words[(t % Len(Words)) + 1],
      Words[((t + 1) % Len(Words)) + 1]>>

InitThreads ==
    /\ thr = [t \in Threads |->
                [pc   |-> "enc_hdr",
                 in   |-> ConcPayload(t),
                 buf  |-> FreshBuf("CyyPacket"),
                 wire |-> FreshBuf("CyyPacket"),
                 len  |-> 0,
                 p    |-> 0,
                 k    |-> 0,
                 expect |-> 0,
                 ret  |-> -1,
                 out  |-> ZeroStruct("CyyPacket")]]
    /\ loc = [f \in Threads |-> [s |-> 0, i |-> 0]]

\* the single caller before its first call
InitSingle ==
    /\ pkt = <<>>
    /\ buf = FreshBuf(schema)
    /\ len = 0
    /\ ret = -1
    /\ chk = "none"
    /\ reads = {}
    /\ out = ZeroStruct(schema)
    /\ pc = "idle"
    /\ called = {}
    /\ fault = NoFault
    /\ echo = FreshBuf(schema)

\* one caller, any packet type, either byte order; no concurrent callers
Init ==
    /\ schema \in Schemas
    /\ bigEndian \in BOOLEAN
    /\ thr = <<>>
    /\ loc = <<>>
    /\ InitSingle

\* the sender calls encode(&v, buf) and hands the bytes written to the transport
Encode ==
    /\ pc = "idle"
    /\ \E v \in Payloads(schema) :
          LET e == encode(schema, v, buf)
          IN  /\ pkt' = v
              /\ buf' = e.o
              /\ len' = e.p
    /\ pc' = "sent"
    /\ UNCHANGED <<schema, bigEndian, ret, chk, reads,
                   out, called, fault, echo, thr, loc>>

-----------------------------------------------------------------------------
(* The transport: opaque bytes, which it may corrupt *)

flip(b, k) == IF (b \div (2 ^ k)) % 2 = 1 THEN b - 2 ^ k ELSE b + 2 ^ k

AltBytes == {0, 1, PACKET_FOOTER, PACKET_HEADER, 255}

Lengths(S) ==
    {n \in ({0} \cup ((FrameLen(S) - Pad)..(FrameLen(S) + Pad))) : n >= 0}

\* the frame arrives as sent
Pass ==
    /\ pc = "sent"
    /\ pc' = "rcvd"
    /\ UNCHANGED <<schema, bigEndian, pkt, buf, len, ret, chk,
                   reads, out, called, fault, echo, thr, loc>>

\* one bit of one payload byte is flipped on the wire
FlipBit ==
    /\ pc = "sent"
    /\ \E i \in PayloadOff(schema)..(PayloadOff(schema) + PACKET_SIZE(schema) - 1),
          k \in 0..7 :
          /\ buf' = [buf EXCEPT ![i] = flip(buf[i], k)]
          /\ fault' = [kind |-> "flip", at |-> i, bit |-> k]
    /\ pc' = "rcvd"
    /\ UNCHANGED <<schema, bigEndian, pkt, len, ret, chk,
                   reads, out, called, echo, thr, loc>>

\* one byte of the frame is replaced by another value
Alter ==
    /\ pc = "sent"
    /\ \E i \in 0..(len - 1), b \in AltBytes :
          /\ b # buf[i]
          /\ buf' = [buf EXCEPT ![i] = b]
          /\ fault' = [kind |-> "alter", at |-> i, bit |-> 0]
    /\ pc' = "rcvd"
    /\ UNCHANGED <<schema, bigEndian, pkt, len, ret, chk,
                   reads, out, called, echo, thr, loc>>

\* the frame arrives truncated or padded: the caller is told another length
Resize ==
    /\ pc = "sent"
    /\ \E n \in Lengths(schema) \ {len} :
          /\ len' = n
          /\ fault' = [kind |-> "resize", at |-> n, bit |-> 0]
    /\ pc' = "rcvd"
    /\ UNCHANGED <<schema, bigEndian, pkt, buf, ret, chk,
                   reads, out, called, echo, thr, loc>>

RxBytes == {0, PACKET_FOOTER, PACKET_HEADER}

\* a buffer of the framed layout with header h, payload bytes a except b at offset j,
\* checksum byte c and footer f
RxFrame(S, h, a, b, j, c, f) ==
    [i \in 0..(Capacity(S) - 1) |->
        IF i = 0 THEN h
        ELSE IF i = j THEN b
        ELSE IF i <= PACKET_SIZE(S) THEN a
        ELSE IF i = PACKET_SIZE(S) + 1 THEN c
        ELSE IF i = PACKET_SIZE(S) + 2 THEN f
        ELSE 204]

\* the receiver is handed bytes that no encode of this model produced
Deliver ==
    /\ pc = "idle"
    /\ HasVerify(schema)
    /\ \E h \in {PACKET_HEADER, PACKET_FOOTER}, f \in {PACKET_FOOTER, PACKET_HEADER},
          a \in RxBytes, b \in RxBytes, j \in 1..PACKET_SIZE(schema), d \in {0, 1, 2},
          n \in Lengths(schema) :
          LET sum == (a * (PACKET_SIZE(schema) - 1) + b) % 256
              c   == IF d = 2 THEN 0 ELSE (sum + d) % 256
          IN  /\ buf' = RxFrame(schema, h, a, b, j, c, f)
              /\ len' = n
    /\ fault' = [kind |-> "deliver", at |-> 0, bit |-> 0]
    /\ pc' = "rcvd"
    /\ UNCHANGED <<schema, bigEndian, pkt, ret, chk,
                   reads, out, called, echo, thr, loc>>

-----------------------------------------------------------------------------
(* The receiver *)

\* the receiver calls recive_Verify(buf, len)
Verify ==
    /\ pc = "rcvd"
    /\ HasVerify(schema)
    /\ "recive_Verify" \notin called
    /\ LET r == recive_Verify(schema, buf, len)
       IN  /\ ret' = r.ret
           /\ chk' = r.chk
           /\ reads' = r.reads
    /\ called' = called \cup {"recive_Verify"}
    /\ UNCHANGED <<schema, bigEndian, pkt, buf, len, out, pc, fault, echo, thr, loc>>

\* the receiver calls decode(buf, &out); decode itself asks nothing of buf
Decode ==
    /\ pc = "rcvd"
    /\ HasDecode(schema)
    /\ "decode" \notin called
    /\ out' = decode(schema, buf)
    /\ called' = called \cup {"decode"}
    /\ UNCHANGED <<schema, bigEndian, pkt, buf, len, ret,
                   chk, reads, pc, fault, echo, thr, loc>>

\* a relaying receiver re-encodes the struct it decoded from an accepted frame
Echo ==
    /\ pc = "rcvd"
    /\ ret = 1
    /\ "decode" \in called
    /\ "encode" \notin called
    /\ echo' = encode(schema, out, echo).o
    /\ called' = called \cup {"encode"}
    /\ UNCHANGED <<schema, bigEndian, pkt, buf, len, ret,
                   chk, reads, out, pc, fault, thr, loc>>

Next ==
    Encode \/ Pass \/ FlipBit \/ Alter \/ Resize \/ Deliver \/ Verify \/ Decode \/ Echo

Spec == Init /\ [][Next]_vars

-----------------------------------------------------------------------------
(* Concurrent callers of CyyPacket.c, one statement at a time.  Each caller   *)
(* owns its struct, its buffer and its output struct, and runs                *)
(*     encode(&in, buf); ... if (recive_Verify(buf, len)) decode(buf, &out);  *)

\* faulty variant of Frame: s and i of send_Verify declared static, one pair for all calls
FrameStatic(t) == 1

\* the call frame that holds s and i of the send_Verify call made by caller t
Frame(t) == t

\* the record of caller t with the fields named in d set to d's values
Step(t, d) == thr' = [thr EXCEPT ![t] = [x \in DOMAIN thr[t] |->
                                            IF x \in DOMAIN d THEN d[x] ELSE thr[t][x]]]

\* encode: *p++ = PACKET_HEADER
EncHeader(t) ==
    /\ thr[t].pc = "enc_hdr"
    /\ Step(t, [pc |-> "enc_mem", buf |-> [thr[t].buf EXCEPT ![0] = PACKET_HEADER],
                p |-> 1, k |-> 1])
    /\ UNCHANGED <<schema, bigEndian, single, loc>>

\* encode: memcpy(p, &in->member, sizeof member); p += sizeof member
EncMember(t) ==
    /\ thr[t].pc = "enc_mem"
    /\ LET k == thr[t].k
           n == Members(schema)[k]
       IN  Step(t, [pc  |-> IF k = Len(Members(schema)) THEN "enc_call" ELSE "enc_mem",
                    buf |-> memcpyTo(thr[t].buf, thr[t].p, MemberBytes(thr[t].in[k], n)),
                    p   |-> thr[t].p + n,
                    k   |-> k + 1])
    /\ UNCHANGED <<schema, bigEndian, single, loc>>

\* encode and recive_Verify enter send_Verify(buf + 1, PACKET_SIZE): s = 0, i = 0;
\* recive_Verify reads expect = buf[1 + PACKET_SIZE] first
send_VerifyCall(t) ==
    /\ thr[t].pc \in {"enc_call", "ver_call"}
    /\ Step(t, [pc |-> IF thr[t].pc = "enc_call" THEN "enc_loop" ELSE "ver_loop",
                expect |-> IF thr[t].pc = "ver_call"
                           THEN thr[t].buf[1 + PACKET_SIZE(schema)] ELSE thr[t].expect])
    /\ loc' = [loc EXCEPT ![Frame(t)] = [s |-> 0, i |-> 0]]
    /\ UNCHANGED <<schema, bigEndian, single>>

\* send_Verify: one turn of the loop, s += buf[i]; ++i
send_VerifyLoop(t) ==
    /\ thr[t].pc \in {"enc_loop", "ver_loop"}
    /\ loc[Frame(t)].i < PACKET_SIZE(schema)
    /\ loc' = [loc EXCEPT ![Frame(t)] =
                  [s |-> loc[Frame(t)].s + thr[t].buf[1 + loc[Frame(t)].i],
                   i |-> loc[Frame(t)].i + 1]]
    /\ UNCHANGED <<schema, bigEndian, single, thr>>

\* encode: send_Verify returns (uint8_t)(s & 0xFF); *p++ = checksum
EncChecksum(t) ==
    /\ thr[t].pc = "enc_loop"
    /\ loc[Frame(t)].i >= PACKET_SIZE(schema)
    /\ Step(t, [pc  |-> "enc_ftr",
                buf |-> [thr[t].buf EXCEPT ![thr[t].p] = loc[Frame(t)].s % 256],
                p   |-> thr[t].p + 1])
    /\ UNCHANGED <<schema, bigEndian, single, loc>>

\* encode: *p++ = PACKET_FOOTER; the caller hands the bytes written to the transport
EncFooter(t) ==
    /\ thr[t].pc = "enc_ftr"
    /\ Step(t, [pc  |-> "sent",
                buf |-> [thr[t].buf EXCEPT ![thr[t].p] = PACKET_FOOTER],
                p   |-> thr[t].p + 1,
                len |-> thr[t].p + 1])
    /\ UNCHANGED <<schema, bigEndian, single, loc>>

\* the transport delivers the frame as sent, with another first byte, with one
\* payload bit flipped, or one byte short; wire keeps what was delivered
Transport(t) ==
    /\ thr[t].pc = "sent"
    /\ \E f \in {"none", "header", "flip", "short"} :
          LET b == CASE f = "header" -> [thr[t].buf EXCEPT ![0] = PACKET_FOOTER]
                     [] f = "flip"   -> [thr[t].buf EXCEPT ![1] = flip(thr[t].buf[1], 0)]
                     [] OTHER        -> thr[t].buf
          IN  Step(t, [pc |-> "ver_len", buf |-> b, wire |-> b,
                       len |-> IF f = "short" THEN thr[t].len - 1 ELSE thr[t].len])
    /\ UNCHANGED <<schema, bigEndian, single, loc>>

\* recive_Verify: if (len != PACKET_TOTAL_SIZE) return 0
VerLength(t) ==
    /\ thr[t].pc = "ver_len"
    /\ IF thr[t].len # PACKET_TOTAL_SIZE(schema)
       THEN Step(t, [pc |-> "done", ret |-> 0])
       ELSE Step(t, [pc |-> "ver_hdr"])
    /\ UNCHANGED <<schema, bigEndian, single, loc>>

\* recive_Verify: if (buf[0] != PACKET_HEADER) return 0
VerHeader(t) ==
    /\ thr[t].pc = "ver_hdr"
    /\ IF thr[t].buf[0] # PACKET_HEADER
       THEN Step(t, [pc |-> "done", ret |-> 0])
       ELSE Step(t, [pc |-> "ver_ftr"])
    /\ UNCHANGED <<schema, bigEndian, single, loc>>

\* recive_Verify: if (buf[len-1] != PACKET_FOOTER) return 0
VerFooter(t) ==
    /\ thr[t].pc = "ver_ftr"
    /\ IF thr[t].buf[thr[t].len - 1] # PACKET_FOOTER
       THEN Step(t, [pc |-> "done", ret |-> 0])
       ELSE Step(t, [pc |-> "ver_call"])
    /\ UNCHANGED <<schema, bigEndian, single, loc>>

\* recive_Verify: return send_Verify(buf + 1, PACKET_SIZE) == expect; the caller
\* goes on to decode only when it returned 1
VerReturn(t) ==
    /\ thr[t].pc = "ver_loop"
    /\ loc[Frame(t)].i >= PACKET_SIZE(schema)
    /\ IF loc[Frame(t)].s % 256 = thr[t].expect
       THEN Step(t, [pc |-> "dec_mem", ret |-> 1, p |-> 1, k |-> 1])
       ELSE Step(t, [pc |-> "done", ret |-> 0])
    /\ UNCHANGED <<schema, bigEndian, single, loc>>

\* decode: memcpy(&out->member, p, sizeof member); p += sizeof member
DecMember(t) ==
    /\ thr[t].pc = "dec_mem"
    /\ LET k == thr[t].k
           n == Members(schema)[k]
       IN  Step(t, [pc  |-> IF k = Len(Members(schema)) THEN "done" ELSE "dec_mem",
                    out |-> [thr[t].out EXCEPT
                                ![k] = MemberValue(memcpyFrom(thr[t].buf, thr[t].p, n), n)],
                    p   |-> thr[t].p + n,
                    k   |-> k + 1])
    /\ UNCHANGED <<schema, bigEndian, single, loc>>

\* NThreads callers of CyyPacket.c, either byte order; the single caller stays idle
\* and owns no buffer
InitConc ==
    /\ schema = "CyyPacket"
    /\ bigEndian \in BOOLEAN
    /\ InitThreads
    /\ pkt = <<>>
    /\ buf = <<>>
    /\ len = 0
    /\ ret = -1
    /\ chk = "none"
    /\ reads = {}
    /\ out = <<>>
    /\ pc = "idle"
    /\ called = {}
    /\ fault = NoFault
    /\ echo = <<>>

NextConc ==
    \E t \in Threads :
        \/ EncHeader(t)
        \/ EncMember(t)
        \/ send_VerifyCall(t)
        \/ send_VerifyLoop(t)
        \/ EncChecksum(t)
        \/ EncFooter(t)
        \/ Transport(t)
        \/ VerLength(t)
        \/ VerHeader(t)
        \/ VerFooter(t)
        \/ VerReturn(t)
        \/ DecMember(t)

SpecConc == InitConc /\ [][NextConc]_vars

-----------------------------------------------------------------------------
(* The frame layout of the interface table, stated without encode *)

P == PACKET_SIZE(schema)

Verified == "recive_Verify" \in called
Decoded == "decode" \in called

\* the sum of the first n elements of the byte sequence f
RECURSIVE RefSum(_, _)
RefSum(f, n) == IF n = 0 THEN 0 ELSE f[n] + RefSum(f, n - 1)

\* the payload region of struct v: byte i (1..P) belongs to 4-byte member (i-1) \div 4 + 1
RefPayload(S, v) ==
    [i \in 1..PACKET_SIZE(S) |-> ObjRep(v[((i - 1) \div 4) + 1])[((i - 1) % 4) + 1]]

\* the frame of struct v: header, payload, low 8 bits of the payload sum, footer
RefFrame(S, v) ==
    [i \in 0..(PACKET_SIZE(S) + 2) |->
        IF i = 0 THEN 170
        ELSE IF i <= PACKET_SIZE(S) THEN RefPayload(S, v)[i]
        ELSE IF i = PACKET_SIZE(S) + 1
             THEN RefSum(RefPayload(S, v), PACKET_SIZE(S)) % 256
        ELSE 85]

\* the four conditions of a valid frame, on a buffer b said to hold n bytes
LenOK(n) == n = P + 3
HdrOK(b) == b[0] = 170
FtrOK(b) == b[P + 2] = 85
SumOK(b) == b[P + 1] = RefSum([i \in 1..P |-> b[i]], P) % 256
ValidFrame(b, n) == LenOK(n) /\ HdrOK(b) /\ FtrOK(b) /\ SumOK(b)

-----------------------------------------------------------------------------
(* C1 *)

\* C1: round trip. When the frame encode wrote for struct pkt reaches the receiver
\* as sent, its length is P+3, recive_Verify returns 1 on it, and decode yields
\* member values identical to pkt.
C1_RoundTrip ==
    (pc = "rcvd" /\ fault = NoFault /\ HasVerify(schema)) =>
        /\ len = P + 3
        /\ (Verified => ret = 1)
        /\ (Decoded => out = pkt)

C1_Witness ==
    /\ pc = "rcvd" /\ fault = NoFault
    /\ schema = "Dart_aim_Packet"
    /\ pkt = <<Words[2], Words[3], Words[1], Words[3]>>
    /\ Verified /\ ret = 1
    /\ Decoded /\ out = pkt

-----------------------------------------------------------------------------
(* C2 *)

\* C2: encode writes exactly P+3 bytes, equal to the reference frame: 0xAA, the
\* members in declaration order at their widths without padding, the low 8 bits
\* of the sum of bytes 1..P, 0x55; the bytes of the buffer beyond are untouched.
C2_EncodeLayout ==
    (pc = "sent" /\ schema # "WeaponPacket") =>
        /\ len = P + 3
        /\ \A i \in 0..(P + 2) : buf[i] = RefFrame(schema, pkt)[i]
        /\ \A i \in (P + 3)..(Capacity(schema) - 1) : buf[i] = FreshBuf(schema)[i]

\* {-3.25f, -3.25f, 1.5f} on a little-endian host: the payload sums to 0x31F
C2_Witness ==
    /\ pc = "sent"
    /\ schema = "CyyPacket"
    /\ ~bigEndian
    /\ pkt = <<Words[3], Words[3], Words[2]>>
    /\ <<buf[0], buf[1], buf[2], buf[3], buf[4]>> = <<170, 0, 0, 80, 192>>
    /\ <<buf[9], buf[10], buf[11], buf[12]>> = <<0, 0, 192, 63>>
    /\ buf[13] = 31
    /\ buf[14] = 85

-----------------------------------------------------------------------------
(* C3 *)

\* the order of the checks and the fail-fast rule: recive_Verify leaves by the first
\* check that fails, having read only what the checks up to it need
ChecksInOrder ==
    /\ chk = "length" <=> ~LenOK(len)
    /\ chk = "header" <=> (LenOK(len) /\ ~HdrOK(buf))
    /\ chk = "footer" <=> (LenOK(len) /\ HdrOK(buf) /\ ~FtrOK(buf))
    /\ chk = "checksum" <=> (LenOK(len) /\ HdrOK(buf) /\ FtrOK(buf))
    /\ chk = "length" => reads = {}
    /\ chk = "header" => reads = {0}
    /\ chk = "footer" => reads = {0, P + 2}
    /\ chk = "checksum" => reads = 0..(P + 2)

\* buffers the caller could have been handed instead: this one with another first
\* byte or another length
Probes ==
    {[b |-> [buf EXCEPT ![0] = h], n |-> n] :
        h \in {PACKET_HEADER, PACKET_FOOTER}, n \in Lengths(schema)}

\* C3 as stated: the checks run in the order length, header, footer, checksum,
\* stop at the first failure, and each failure is reported as an outcome of its
\* own: no buffer rejected by another check is reported with the same value.
C3_DistinctOutcomes ==
    Verified =>
        /\ ChecksInOrder
        /\ ret = 0 =>
              \A q \in Probes :
                  recive_Verify(schema, q.b, q.n).ret = ret
                      => recive_Verify(schema, q.b, q.n).chk = chk

\* C3 amended: the checks run in the order length, header, footer, checksum and
\* stop at the first failure; every failure is reported by the one value 0, and
\* 1 is returned exactly when all four checks pass.
C3_OrderOneCode ==
    Verified =>
        /\ ChecksInOrder
        /\ ret = IF ValidFrame(buf, len) THEN 1 ELSE 0

\* a frame with a bad header, a bad footer and a bad checksum: rejected at the header
C3_Witness ==
    /\ Verified
    /\ len = P + 3
    /\ ~HdrOK(buf) /\ ~FtrOK(buf) /\ ~SumOK(buf)
    /\ chk = "header"
    /\ ret = 0

-----------------------------------------------------------------------------
(* C4 *)

\* C4 as stated: decode yields member values only from a buffer that passes the
\* four checks; on any other buffer the caller's struct is left as it was.
C4_AllOrNothing ==
    (Decoded /\ HasVerify(schema)) =>
        (ValidFrame(buf, len) \/ out = ZeroStruct(schema))

\* C4 amended: decode makes no check of its own. Whatever the buffer holds, it
\* overwrites every member of the caller's struct with bytes 1..P; only
\* recive_Verify, which the caller is to call first, tells whether the buffer
\* passes the four checks: it returns 1 exactly for a valid frame.
C4_DecodeUnchecked ==
    /\ (Decoded /\ HasVerify(schema)) =>
          \A k \in 1..Len(Members(schema)) :
              ObjRep(out[k]) = [i \in 1..4 |-> buf[4 * (k - 1) + i]]
    /\ Verified => (ret = 1 <=> ValidFrame(buf, len))

\* a buffer recive_Verify rejected, decoded all the same
C4_Witness ==
    /\ Decoded /\ Verified
    /\ ret = 0
    /\ chk = "header"
    /\ out # ZeroStruct(schema)

-----------------------------------------------------------------------------
(* C5 *)

\* C5: a buffer of any length other than P+3 (0 included) is rejected by the
\* length check, before any byte of it is read.
C5_LengthFirst ==
    /\ (Verified /\ len # P + 3) => (ret = 0 /\ chk = "length" /\ reads = {})
    /\ (pc = "sent" /\ HasVerify(schema)) =>
          \A n \in 0..Capacity(schema) :
              n # P + 3 =>
                  recive_Verify(schema, buf, n) = [ret |-> 0, chk |-> "length", reads |-> {}]

C5_Witness ==
    /\ Verified
    /\ fault.kind = "resize"
    /\ len = 0
    /\ ret = 0 /\ chk = "length" /\ reads = {}

-----------------------------------------------------------------------------
(* C6 *)

\* C6: a valid frame with any one bit of any payload byte flipped is rejected by
\* the checksum check.
C6_FlipDetected ==
    (Verified /\ fault.kind = "flip") => (ret = 0 /\ chk = "checksum")

C6_Witness ==
    /\ Verified
    /\ fault.kind = "flip" /\ fault.at = P /\ fault.bit = 7
    /\ ret = 0 /\ chk = "checksum"

-----------------------------------------------------------------------------
(* C7 *)

\* C7: a valid frame whose first byte is replaced by any value but 0xAA is rejected
\* by the header check, and one whose last byte is replaced by any value but 0x55
\* by the footer check, the payload and the checksum byte still matching.
C7_HeaderFooter ==
    /\ (Verified /\ fault.kind = "alter" /\ fault.at = 0) => (ret = 0 /\ chk = "header")
    /\ (Verified /\ fault.kind = "alter" /\ fault.at = P + 2) => (ret = 0 /\ chk = "footer")
    /\ (pc = "sent" /\ HasVerify(schema)) =>
          \A b \in Byte :
              /\ b # 170 =>
                    LET r == recive_Verify(schema, [buf EXCEPT ![0] = b], len)
                    IN  r.ret = 0 /\ r.chk = "header"
              /\ b # 85 =>
                    LET r == recive_Verify(schema, [buf EXCEPT ![P + 2] = b], len)
                    IN  r.ret = 0 /\ r.chk = "footer"

C7_Witness ==
    /\ Verified
    /\ fault.kind = "alter" /\ fault.at = P + 2
    /\ HdrOK(buf) /\ SumOK(buf)
    /\ ret = 0 /\ chk = "footer"

-----------------------------------------------------------------------------
(* C8 *)

\* C8: every packet type uses the framing: its encode writes the header, the
\* payload, the 8-bit checksum of the payload and the footer, and it has a
\* recive_Verify and a decode; no payload is decoded for a packet type that
\* has no recive_Verify.
C8_UniformFraming ==
    /\ pc = "sent" =>
          /\ len = P + 3
          /\ HdrOK(buf) /\ SumOK(buf) /\ FtrOK(buf)
          /\ HasVerify(schema) /\ HasDecode(schema)
    /\ Decoded => HasVerify(schema)

-----------------------------------------------------------------------------
(* C9 *)

\* C9: the codec keeps no state of its own. Whatever the interleaving of the
\* statements of concurrent callers that each own their buffers, encode leaves in
\* the caller's buffer what it writes when run alone and nothing beyond byte P+2,
\* recive_Verify returns what it returns alone on the delivered bytes, decode
\* yields what it yields alone, and no call changes the struct or buffer it reads.
C9_Stateless ==
    \A t \in Threads :
        LET x  == thr[t]
            rv == recive_Verify(schema, x.wire, x.len)
        IN  /\ x.in = ConcPayload(t)
            /\ \A i \in (P + 3)..(Capacity(schema) - 1) : x.buf[i] = FreshBuf(schema)[i]
            /\ x.pc = "sent" =>
                  /\ x.buf = encode(schema, ConcPayload(t), FreshBuf(schema)).o
                  /\ x.len = P + 3
            /\ x.pc \in {"ver_len", "ver_hdr", "ver_ftr", "ver_call", "ver_loop",
                         "dec_mem", "done"} => x.buf = x.wire
            /\ x.pc = "dec_mem" => (x.ret = 1 /\ rv.ret = 1)
            /\ x.pc = "done" =>
                  /\ x.ret = rv.ret
                  /\ x.out = IF rv.ret = 1 THEN decode(schema, x.wire)
                                           ELSE ZeroStruct(schema)

\* caller 1 has its results while caller 2 is inside the loop of send_Verify
C9_Witness ==
    /\ thr[1].pc = "done"
    /\ thr[1].ret = 1
    /\ thr[1].out = ConcPayload(1)
    /\ thr[2].pc = "ver_loop"
    /\ loc[Frame(2)].i = 5
    /\ loc[Frame(2)].s > 0

-----------------------------------------------------------------------------
(* C10 *)

\* C10: a buffer of length P+3 that recive_Verify accepts is what encode writes
\* for the struct decode reads from it, byte for byte.
C10_AcceptedIsEncoded ==
    "encode" \in called => \A i \in 0..(P + 2) : echo[i] = buf[i]

\* an accepted frame that came from the wire, not from encode
C10_Witness ==
    /\ "encode" \in called
    /\ fault.kind = "deliver"
    /\ buf[1] # buf[2]
    /\ \A i \in 0..(P + 2) : echo[i] = buf[i]

====
